---- MODULE Spec2Model ----
(***************************************************************************)
(* Model of src/download_data/ssl4eo_downloader.py: the resumable download *)
(* worker (skip check, coordinate acquisition in match / rtree / grid      *)
(* mode, persistence, progress counter, ledger append) run by a pool of    *)
(* threads (multiprocessing.dummy), over several runs that resume from the *)
(* ledger file written by the runs before.                                 *)
(*                                                                         *)
(* Units.  A coordinate is <<lon, lat>> in hundredths of a degree.         *)
(* deg2km returns metres: one hundredth of a degree is                     *)
(* 2*6371*pi/360 km / 100 = 1111.949 m, rounded to 1112 m.  The threshold  *)
(* 1.5 * radius / 1000 km is 1.5 * radius metres; distances are compared   *)
(* by their squares, both sides multiplied by 4.                           *)
(***************************************************************************)
EXTENDS Integers, Sequences, FiniteSets, TLC

\* ------------------------------------------------------------------ bounds
NumIdx == 2          \* indices_range is [0, NumIdx)
NumWorkers == 2      \* threads of the pool
NumDates == 2        \* reference dates (date windows per index)
NumCand == 4         \* coordinates the sampler can draw
MaxRuns == 3         \* runs of the program on the same ledger file
MaxDraws == 3        \* sample_point() calls of one run
log_freq == 2        \* --log_freq of the runs
MaxSide == 4         \* rows / columns of a source array, and of a crop size
MaxEntries == 2      \* entries of an R-tree given to the overlap check alone

\* ------------------------------------------------------- program constants
radius == 1320       \* --radius default, metres

VARIABLES
    mode,          \* "match" (args.match_file), "rtree" or "grid" (args.overlap_check)
    run,           \* number of the current run, 1..MaxRuns
    ledger,        \* rows of the file ext_path, in file order
    nloaded,       \* number of rows the file had when this run read it
    ext_coords,    \* str(index) -> (lon, lat), loaded at startup
    ext_flags,     \* str(index) -> status, loaded at startup
    rtree_coords,  \* entries <<id, point>> of the R-tree, in insertion order
    grid_dict,     \* grid cell -> set of points
    counter,       \* Counter: [value, lock]; lock = 0 when free, else the holder
    queue,         \* indices not yet handed to a worker
    pc,            \* worker -> position in worker()
    cur,           \* worker -> idx argument of worker()
    stack,         \* worker -> frames of get_random_patches_rtree/_grid
    patches,       \* worker -> `patches` as last assigned (None or a list)
    center_coord,  \* worker -> `center_coord` as last assigned
    err,           \* worker -> number of the remote call that raised, 0 if none
    tmp,           \* worker -> value read by `self.value += delta`
    fbuf,          \* worker -> rows buffered in the worker's open file object
    disk,          \* patches on disk: [idx, date, coords]
    draws,         \* sample_point() calls of this run
    skipped,       \* indices this run returned from at the skip check
    started,       \* indices this run went on to process
    attempts,      \* index -> resolution blocks entered for it in this run
    saved,         \* indices whose patches this run wrote to disk
    returned,      \* <<idx, count>>: values Counter.update returned in this run
    logged,        \* counts printed as progress, in order
    arg,           \* arguments of a call of one of the pure functions
    res            \* [called, value]: what the call returned, once it was made

vars == <<mode, run, ledger, nloaded, ext_coords, ext_flags, rtree_coords,
          grid_dict, counter, queue, pc, cur, stack, patches, center_coord,
          err, tmp, fbuf, disk, draws, skipped, started, attempts, saved,
          returned, logged, arg, res>>

Workers == 1..NumWorkers
Indices == 0..(NumIdx - 1)
Dates == 1..NumDates
Modes == {"match", "rtree", "grid"}

\* ----------------------------------------------------------------- helpers
Abs(x) == IF x < 0 THEN -x ELSE x

\* str(idx) and its inverse int(key), for the indices of the model
Digits == <<"0", "1", "2", "3", "4", "5", "6", "7", "8", "9">>
str(i) == Digits[i + 1]
int(k) == CHOOSE i \in 0..9 : Digits[i + 1] = k

\* Python None / a list of patches
None == [isNone |-> TRUE, list |-> <<>>]
List(l) == [isNone |-> FALSE, list |-> l]

\* the points sampler.sample_point() can return: 0.99, 1.00, 1.01, ... degrees
\* of longitude on the equator; 0.99 lies in grid cell 180, the others in 181
Candidates == {<<99 + i, 0>> : i \in 0..(NumCand - 1)}

\* the match file: index -> pre-sampled coordinate
match_coords == [k \in {str(i) : i \in Indices} |-> <<99 + int(k), 0>>]

\* GaussianSampler.deg2km, in metres for hundredths of a degree
deg2km(deg) == deg * 1112

\* 4 * distance^2, distance as lines 425-428 / 511-514 compute it
distance2x4(a, b) ==
    4 * (deg2km(Abs(a[1] - b[1])) * deg2km(Abs(a[1] - b[1]))
         + deg2km(Abs(a[2] - b[2])) * deg2km(Abs(a[2] - b[2])))

\* distance < (1.5 * radius / 1000)
Overlap(a, b) == distance2x4(a, b) < 9 * radius * radius

\* ------------------------------------------------------- resume: the ledger
\* A ledger row is <<str(index), lon, lat, status>>.

RECURSIVE load_coords(_)
\* load_coords that keeps the first row of a key instead of the last
load_coords_first(rows) ==
    [k \in {rows[i][1] : i \in 1..Len(rows)} |->
        LET i == CHOOSE i \in 1..Len(rows) :
                     /\ rows[i][1] = k
                     /\ \A j \in 1..(i - 1) : rows[j][1] # k
        IN  <<rows[i][2], rows[i][3]>>]

\* ext_coords after reading the rows in file order: a later row of the same key
\* replaces the earlier one
load_coords(rows) ==
    IF rows = <<>> THEN <<>>
    ELSE LET m == load_coords(SubSeq(rows, 1, Len(rows) - 1))
             r == rows[Len(rows)]
         IN  [k \in DOMAIN m \cup {r[1]} |->
                 IF k = r[1] THEN <<r[2], r[3]>> ELSE m[k]]

RECURSIVE load_flags(_)
load_flags(rows) ==
    IF rows = <<>> THEN <<>>
    ELSE LET m == load_flags(SubSeq(rows, 1, Len(rows) - 1))
             r == rows[Len(rows)]
         IN  [k \in DOMAIN m \cup {r[1]} |-> IF k = r[1] THEN r[4] ELSE m[k]]

RECURSIVE ext_keys(_)
\* ext_coords.keys(): a dict keeps its keys in the order of their first insertion
ext_keys(rows) ==
    IF rows = <<>> THEN <<>>
    ELSE LET ks == ext_keys(SubSeq(rows, 1, Len(rows) - 1))
             k == rows[Len(rows)][1]
         IN  IF \E i \in 1..Len(ks) : ks[i] = k THEN ks ELSE Append(ks, k)

\* ---------------------------------------------------------- overlap indexes
\* (math.floor(lon + 180), math.floor(lat + 90)), for hundredths of a degree
gridIndex(c) == <<(c[1] + 18000) \div 100, (c[2] + 9000) \div 100>>

\* grid_dict with the set s stored under key k
grid_put(g, k, s) == [x \in DOMAIN g \cup {k} |-> IF x = k THEN s ELSE g[x]]

\* `grid_dict[gridIndex] = {c}` for a new key, `.add(c)` for a key that exists
grid_add(g, c) ==
    IF gridIndex(c) \notin DOMAIN g
    THEN grid_put(g, gridIndex(c), {c})
    ELSE grid_put(g, gridIndex(c), g[gridIndex(c)] \cup {c})

RECURSIVE seed_grid(_, _)
seed_grid(m, keys) ==
    IF keys = <<>> THEN <<>>
    ELSE grid_add(seed_grid(m, SubSeq(keys, 1, Len(keys) - 1)), m[keys[Len(keys)]])

\* rtree_coords.insert(i, (c[0], c[1], c[0], c[1])) for i, key in enumerate(keys)
seed_rtree(m, keys) == [i \in 1..Len(keys) |-> <<i - 1, m[keys[i]]>>]

\* squared distance in degree units, the metric of the R-tree's nearest query
deg2(a, b) == (a[1] - b[1]) * (a[1] - b[1]) + (a[2] - b[2]) * (a[2] - b[2])

\* nearest that returns the entry inserted first, whatever its distance
nearest_first(rt, c) == {i \in 1..Len(rt) : i = 1}

\* rtree_obj.nearest(c, num_results=1): the entries at the least distance
nearest(rt, c) ==
    {i \in 1..Len(rt) : \A j \in 1..Len(rt) : deg2(c, rt[i][2]) <= deg2(c, rt[j][2])}

\* lines 422-430 for a patch radius of r metres: OverlapError is raised for a
\* nearest entry at distance < 1.5 * r / 1000
rtree_overlap_radius(rt, c, r) ==
    \E i \in nearest(rt, c) : distance2x4(c, rt[i][2]) < 9 * r * r

\* lines 424-430, for the radius of the runs
rtree_overlap(rt, c) == rtree_overlap_radius(rt, c, radius)

\* rtree_obj.insert(len(rtree_obj) - 1, (x, y, x, y))
rtree_insert(rt, c) == Append(rt, <<Len(rt) - 1, c>>)

\* grid_overlap with the scan extended to the points of every cell
grid_overlap_all_cells(g, c) ==
    \E k \in DOMAIN g : \E p \in g[k] : Overlap(c, p)

\* lines 507-516: OverlapError is raised for a point of the candidate's own cell
grid_overlap(g, c) ==
    /\ gridIndex(c) \in DOMAIN g
    /\ \E p \in g[gridIndex(c)] : Overlap(c, p)

\* `res` before and after the call of a pure function
NotCalled == [called |-> FALSE, value |-> <<>>]
Called(v) == [called |-> TRUE, value |-> v]

\* ------------------------------------------------------------------- startup
indices == [i \in 1..NumIdx |-> i - 1]

Init ==
    /\ mode \in Modes
    /\ run = 1
    /\ ledger = <<>>
    /\ nloaded = 0
    /\ ext_coords = <<>>
    /\ ext_flags = <<>>
    /\ rtree_coords = <<>>
    /\ grid_dict = <<>>
    /\ counter = [value |-> 0, lock |-> 0]
    /\ queue = indices
    /\ pc = [w \in Workers |-> "idle"]
    /\ cur = [w \in Workers |-> 0]
    /\ stack = [w \in Workers |-> <<>>]
    /\ patches = [w \in Workers |-> None]
    /\ center_coord = [w \in Workers |-> <<0, 0>>]
    /\ err = [w \in Workers |-> 0]
    /\ tmp = [w \in Workers |-> 0]
    /\ fbuf = [w \in Workers |-> <<>>]
    /\ disk = {}
    /\ draws = 0
    /\ skipped = {}
    /\ started = {}
    /\ attempts = [i \in Indices |-> 0]
    /\ saved = {}
    /\ returned = {}
    /\ logged = <<>>
    /\ arg = <<>>
    /\ res = NotCalled

\* __main__ of a later run, lines 752-797 and 882-889: --resume names the ledger
\* file of the runs before; the pool of the run before has ended
main_resume ==
    /\ run < MaxRuns
    /\ queue = <<>>
    /\ \A w \in Workers : pc[w] = "idle"
    /\ run' = run + 1
    /\ mode' \in Modes
    /\ nloaded' = Len(ledger)
    /\ ext_coords' = load_coords(ledger)
    /\ ext_flags' = load_flags(ledger)
    /\ rtree_coords' = IF mode' = "match" THEN <<>>
                       ELSE seed_rtree(load_coords(ledger), ext_keys(ledger))
    /\ grid_dict' = IF mode' = "match" THEN <<>>
                    ELSE seed_grid(load_coords(ledger), ext_keys(ledger))
    /\ counter' = [value |-> 0, lock |-> 0]
    /\ queue' = indices
    /\ draws' = 0
    /\ skipped' = {}
    /\ started' = {}
    /\ attempts' = [i \in Indices |-> 0]
    /\ saved' = {}
    /\ returned' = {}
    /\ logged' = <<>>
    /\ UNCHANGED <<arg, res, ledger, pc, cur, stack, patches, center_coord, err, tmp,
                   fbuf, disk>>

\* -------------------------------------------------------------- the worker
\* the date window of remote call j of a resolution block: the list
\* comprehensions call filter_collection for every period, then get_patch for
\* every filtered collection; the first call that raises ends the block
window(j) == ((j - 1) % NumDates) + 1
RemoteCalls == 1..(2 * NumDates)

\* the list `patches` of a block in which no call raised
patch_list(c) == [d \in Dates |-> [date |-> d, coords |-> c]]

Top(w) == stack[w][Len(stack[w])]

\* worker_skip_check without the test of the recorded status: every index
\* with a loaded record is skipped, in every mode
worker_skip_check_any_status(w) ==
    /\ pc[w] = "idle"
    /\ queue # <<>>
    /\ queue' = Tail(queue)
    /\ LET idx == Head(queue) IN
       IF str(idx) \in DOMAIN ext_coords
       THEN /\ skipped' = skipped \cup {idx}
            /\ UNCHANGED <<pc, cur, started>>
       ELSE /\ started' = started \cup {idx}
            /\ cur' = [cur EXCEPT ![w] = idx]
            /\ pc' = [pc EXCEPT ![w] = IF mode = "match" THEN "match" ELSE "call_worker"]
            /\ UNCHANGED skipped
    /\ UNCHANGED <<arg, res, mode, run, ledger, nloaded, ext_coords, ext_flags, rtree_coords,
                   grid_dict, counter, stack, patches, center_coord, err, tmp,
                   fbuf, disk, draws, attempts, saved, returned, logged>>

\* worker_skip_check that skips in match mode only: a sample-mode run
\* processes every index again
worker_skip_check_match_only(w) ==
    /\ pc[w] = "idle"
    /\ queue # <<>>
    /\ queue' = Tail(queue)
    /\ LET idx == Head(queue) IN
       IF str(idx) \in DOMAIN ext_coords /\ mode = "match"
       THEN /\ skipped' = skipped \cup {idx}
            /\ UNCHANGED <<pc, cur, started>>
       ELSE /\ started' = started \cup {idx}
            /\ cur' = [cur EXCEPT ![w] = idx]
            /\ pc' = [pc EXCEPT ![w] = IF mode = "match" THEN "match" ELSE "call_worker"]
            /\ UNCHANGED skipped
    /\ UNCHANGED <<arg, res, mode, run, ledger, nloaded, ext_coords, ext_flags, rtree_coords,
                   grid_dict, counter, stack, patches, center_coord, err, tmp,
                   fbuf, disk, draws, attempts, saved, returned, logged>>

\* lines 799-805: Pool.map / the for loop hands the next index to worker()
worker_skip_check(w) ==
    /\ pc[w] = "idle"
    /\ queue # <<>>
    /\ queue' = Tail(queue)
    /\ LET idx == Head(queue) IN
       IF /\ str(idx) \in DOMAIN ext_coords
          /\ (mode = "match" \/ ext_flags[str(idx)] # 0)
       THEN /\ skipped' = skipped \cup {idx}
            /\ UNCHANGED <<pc, cur, started>>
       ELSE /\ started' = started \cup {idx}
            /\ cur' = [cur EXCEPT ![w] = idx]
            /\ pc' = [pc EXCEPT ![w] = IF mode = "match" THEN "match" ELSE "call_worker"]
            /\ UNCHANGED skipped
    /\ UNCHANGED <<arg, res, mode, run, ledger, nloaded, ext_coords, ext_flags, rtree_coords,
                   grid_dict, counter, stack, patches, center_coord, err, tmp,
                   fbuf, disk, draws, attempts, saved, returned, logged>>

\* get_random_patches_match that returns the patches extracted before the
\* call that raised, instead of None
get_random_patches_match_partial(w) ==
    /\ pc[w] = "match"
    /\ LET coords == match_coords[str(cur[w])] IN
       \E j \in {0} \cup RemoteCalls :
          /\ err' = [err EXCEPT ![w] = IF j = 0 THEN 0 ELSE window(j)]
          /\ patches' = [patches EXCEPT ![w] =
                            IF j = 0 THEN List(patch_list(coords))
                            ELSE IF j > NumDates + 1
                            THEN List(SubSeq(patch_list(coords), 1, j - NumDates - 1))
                            ELSE None]
          /\ center_coord' = [center_coord EXCEPT ![w] = coords]
    /\ attempts' = [attempts EXCEPT ![cur[w]] = @ + 1]
    /\ pc' = [pc EXCEPT ![w] = "persist"]
    /\ UNCHANGED <<arg, res, mode, run, ledger, nloaded, ext_coords, ext_flags, rtree_coords,
                   grid_dict, counter, queue, cur, stack, tmp, fbuf, disk, draws,
                   skipped, started, saved, returned, logged>>

\* lines 369-400
get_random_patches_match(w) ==
    /\ pc[w] = "match"
    /\ LET coords == match_coords[str(cur[w])] IN
       \E j \in {0} \cup RemoteCalls :
          /\ err' = [err EXCEPT ![w] = IF j = 0 THEN 0 ELSE window(j)]
          /\ patches' = [patches EXCEPT ![w] =
                            IF j = 0 THEN List(patch_list(coords)) ELSE None]
          /\ center_coord' = [center_coord EXCEPT ![w] = coords]
    /\ attempts' = [attempts EXCEPT ![cur[w]] = @ + 1]
    /\ pc' = [pc EXCEPT ![w] = "persist"]
    /\ UNCHANGED <<arg, res, mode, run, ledger, nloaded, ext_coords, ext_flags, rtree_coords,
                   grid_dict, counter, queue, cur, stack, tmp, fbuf, disk, draws,
                   skipped, started, saved, returned, logged>>

\* lines 419 / 500: entry of get_random_patches_rtree / _grid, called from
\* worker() or from one of the two recursive call sites; pc names the call site
sample_point(w) ==
    /\ pc[w] \in {"call_worker", "call_overlap", "call_fail"}
    /\ draws < MaxDraws
    /\ draws' = draws + 1
    /\ \E c \in Candidates :
          stack' = [stack EXCEPT ![w] =
                       Append(@, [coords |-> c, site |-> pc[w], overlap |-> FALSE])]
    /\ pc' = [pc EXCEPT ![w] = IF mode = "rtree" THEN "r_nearest" ELSE "g_check"]
    /\ UNCHANGED <<arg, res, mode, run, ledger, nloaded, ext_coords, ext_flags, rtree_coords,
                   grid_dict, counter, queue, cur, patches, center_coord, err, tmp,
                   fbuf, disk, skipped, started, attempts, saved, returned, logged>>

\* lines 422-430 and 435-447: the nearest-neighbour query; OverlapError is
\* caught by the recursive call of line 436
rtree_check(w) ==
    /\ pc[w] = "r_nearest"
    /\ pc' = [pc EXCEPT ![w] = IF rtree_overlap(rtree_coords, Top(w).coords)
                               THEN "call_overlap" ELSE "r_insert"]
    /\ stack' = [stack EXCEPT ![w][Len(stack[w])].overlap =
                                 rtree_overlap(rtree_coords, Top(w).coords)]
    /\ UNCHANGED <<arg, res, mode, run, ledger, nloaded, ext_coords, ext_flags, rtree_coords,
                   grid_dict, counter, queue, cur, patches, center_coord,
                   err, tmp, fbuf, disk, draws, skipped, started, attempts, saved,
                   returned, logged>>

\* lines 431-433
rtree_accept(w) ==
    /\ pc[w] = "r_insert"
    /\ rtree_coords' = rtree_insert(rtree_coords, Top(w).coords)
    /\ pc' = [pc EXCEPT ![w] = "resolve"]
    /\ UNCHANGED <<arg, res, mode, run, ledger, nloaded, ext_coords, ext_flags, grid_dict,
                   counter, queue, cur, stack, patches, center_coord, err, tmp,
                   fbuf, disk, draws, skipped, started, attempts, saved, returned,
                   logged>>

\* lines 503-516 and 519-531: the scan of the candidate's own cell
grid_check(w) ==
    /\ pc[w] = "g_check"
    /\ pc' = [pc EXCEPT ![w] =
                 IF gridIndex(Top(w).coords) \notin DOMAIN grid_dict THEN "g_new"
                 ELSE IF grid_overlap(grid_dict, Top(w).coords) THEN "call_overlap"
                 ELSE "g_add"]
    /\ stack' = [stack EXCEPT ![w][Len(stack[w])].overlap =
                                 grid_overlap(grid_dict, Top(w).coords)]
    /\ UNCHANGED <<arg, res, mode, run, ledger, nloaded, ext_coords, ext_flags, rtree_coords,
                   grid_dict, counter, queue, cur, patches, center_coord,
                   err, tmp, fbuf, disk, draws, skipped, started, attempts, saved,
                   returned, logged>>

\* line 508, `grid_dict[gridIndex] = {new_coord}`, and line 517,
\* `grid_dict[gridIndex].add(new_coord)`
grid_accept(w) ==
    /\ pc[w] \in {"g_new", "g_add"}
    /\ LET c == Top(w).coords IN
       grid_dict' = IF pc[w] = "g_new"
                    THEN grid_put(grid_dict, gridIndex(c), {c})
                    ELSE grid_put(grid_dict, gridIndex(c), grid_dict[gridIndex(c)] \cup {c})
    /\ pc' = [pc EXCEPT ![w] = "resolve"]
    /\ UNCHANGED <<arg, res, mode, run, ledger, nloaded, ext_coords, ext_flags, rtree_coords,
                   counter, queue, cur, stack, patches, center_coord, err, tmp,
                   fbuf, disk, draws, skipped, started, attempts, saved, returned,
                   logged>>

\* resolve that gives up on an exception as the match variant does: it returns
\* (None, coords) instead of calling itself again
resolve_give_up(w) ==
    /\ pc[w] = "resolve"
    /\ attempts' = [attempts EXCEPT ![cur[w]] = @ + 1]
    /\ LET c == Top(w).coords IN
       \E j \in {0} \cup RemoteCalls :
          /\ patches' = [patches EXCEPT ![w] =
                            IF j = 0 THEN List(patch_list(c)) ELSE None]
          /\ center_coord' = [center_coord EXCEPT ![w] = c]
          /\ err' = [err EXCEPT ![w] = IF j = 0 THEN 0 ELSE window(j)]
          /\ pc' = [pc EXCEPT ![w] = "return"]
    /\ UNCHANGED <<arg, res, mode, run, ledger, nloaded, ext_coords, ext_flags, rtree_coords,
                   grid_dict, counter, queue, cur, stack, tmp, fbuf, disk, draws,
                   skipped, started, saved, returned, logged>>

\* lines 449-479 (rtree) and 533-561 (grid): the resolution block of the
\* current frame, for the frame's own `coords`; on an exception the rtree
\* variant inserts new_coord, and both call themselves again
resolve(w) ==
    /\ pc[w] = "resolve"
    /\ attempts' = [attempts EXCEPT ![cur[w]] = @ + 1]
    /\ LET c == Top(w).coords IN
       \E j \in {0} \cup RemoteCalls :
          IF j = 0
          THEN /\ patches' = [patches EXCEPT ![w] = List(patch_list(c))]
               /\ center_coord' = [center_coord EXCEPT ![w] = c]
               /\ err' = [err EXCEPT ![w] = 0]
               /\ pc' = [pc EXCEPT ![w] = "return"]
               /\ UNCHANGED rtree_coords
          ELSE /\ err' = [err EXCEPT ![w] = window(j)]
               /\ rtree_coords' = IF mode = "rtree"
                                  THEN rtree_insert(rtree_coords, c)
                                  ELSE rtree_coords
               /\ pc' = [pc EXCEPT ![w] = "call_fail"]
               /\ UNCHANGED <<patches, center_coord>>
    /\ UNCHANGED <<arg, res, mode, run, ledger, nloaded, ext_coords, ext_flags, grid_dict,
                   counter, queue, cur, stack, tmp, fbuf, disk, draws, skipped,
                   started, saved, returned, logged>>

\* return_patches whose caller takes the patches of the call and keeps the
\* coordinate of its own candidate
return_patches_own_coord(w) ==
    /\ pc[w] = "return"
    /\ stack' = [stack EXCEPT ![w] = SubSeq(@, 1, Len(@) - 1)]
    /\ center_coord' = [center_coord EXCEPT ![w] =
                            IF Len(stack[w]) > 1
                            THEN stack[w][Len(stack[w]) - 1].coords ELSE @]
    /\ pc' = [pc EXCEPT ![w] =
                 CASE Top(w).site = "call_overlap" -> "resolve"
                   [] Top(w).site = "call_fail" -> "return"
                   [] OTHER -> "persist"]
    /\ UNCHANGED <<arg, res, mode, run, ledger, nloaded, ext_coords, ext_flags, rtree_coords,
                   grid_dict, counter, queue, cur, patches, err, tmp,
                   fbuf, disk, draws, skipped, started, attempts, saved, returned,
                   logged>>

\* lines 481 / 563, `return patches, center_coord`, and the assignment of the
\* returned pair at the call site: line 436 / 520 (then the caller goes on to
\* its own resolution block), line 468 / 550 (then the caller returns the pair),
\* or line 820 / 833 in worker()
return_patches(w) ==
    /\ pc[w] = "return"
    /\ stack' = [stack EXCEPT ![w] = SubSeq(@, 1, Len(@) - 1)]
    /\ pc' = [pc EXCEPT ![w] =
                 CASE Top(w).site = "call_overlap" -> "resolve"
                   [] Top(w).site = "call_fail" -> "return"
                   [] OTHER -> "persist"]
    /\ UNCHANGED <<arg, res, mode, run, ledger, nloaded, ext_coords, ext_flags, rtree_coords,
                   grid_dict, counter, queue, cur, patches, center_coord, err, tmp,
                   fbuf, disk, draws, skipped, started, attempts, saved, returned,
                   logged>>

\* persist that writes the patch of the first date window only
persist_first_window(w) ==
    /\ pc[w] = "persist"
    /\ IF ~patches[w].isNone
       THEN /\ disk' = disk \cup {[idx |-> cur[w], date |-> p.date, coords |-> p.coords] :
                                     p \in {patches[w].list[1]}}
            /\ saved' = saved \cup {cur[w]}
            /\ pc' = [pc EXCEPT ![w] = "update"]
       ELSE /\ pc' = [pc EXCEPT ![w] = "open"]
            /\ UNCHANGED <<disk, saved>>
    /\ UNCHANGED <<arg, res, mode, run, ledger, nloaded, ext_coords, ext_flags, rtree_coords,
                   grid_dict, counter, queue, cur, stack, patches, center_coord,
                   err, tmp, fbuf, draws, skipped, started, attempts, returned,
                   logged>>

\* lines 848-865: save_patch for every patch of the list, or the console line
persist(w) ==
    /\ pc[w] = "persist"
    /\ IF ~patches[w].isNone
       THEN /\ disk' = disk \cup {[idx |-> cur[w], date |-> p.date, coords |-> p.coords] :
                                     p \in {patches[w].list[d] : d \in DOMAIN patches[w].list}}
            /\ saved' = saved \cup {cur[w]}
            /\ pc' = [pc EXCEPT ![w] = "update"]
       ELSE /\ pc' = [pc EXCEPT ![w] = "open"]
            /\ UNCHANGED <<disk, saved>>
    /\ UNCHANGED <<arg, res, mode, run, ledger, nloaded, ext_coords, ext_flags, rtree_coords,
                   grid_dict, counter, queue, cur, stack, patches, center_coord,
                   err, tmp, fbuf, draws, skipped, started, attempts, returned,
                   logged>>

\* counter_acquire that does not wait for the lock
counter_acquire_unlocked(w) ==
    /\ pc[w] = "update"
    /\ counter' = [counter EXCEPT !.lock = w]
    /\ pc' = [pc EXCEPT ![w] = "load"]
    /\ UNCHANGED <<arg, res, mode, run, ledger, nloaded, ext_coords, ext_flags, rtree_coords,
                   grid_dict, queue, cur, stack, patches, center_coord, err, tmp,
                   fbuf, disk, draws, skipped, started, attempts, saved, returned,
                   logged>>

\* lines 612-613, Counter.update: `with self.lock` is entered
counter_acquire(w) ==
    /\ pc[w] = "update"
    /\ counter.lock = 0
    /\ counter' = [counter EXCEPT !.lock = w]
    /\ pc' = [pc EXCEPT ![w] = "load"]
    /\ UNCHANGED <<arg, res, mode, run, ledger, nloaded, ext_coords, ext_flags, rtree_coords,
                   grid_dict, queue, cur, stack, patches, center_coord, err, tmp,
                   fbuf, disk, draws, skipped, started, attempts, saved, returned,
                   logged>>

\* line 614, `self.value += delta`: the read of self.value
counter_load(w) ==
    /\ pc[w] = "load"
    /\ tmp' = [tmp EXCEPT ![w] = counter.value]
    /\ pc' = [pc EXCEPT ![w] = "store"]
    /\ UNCHANGED <<arg, res, mode, run, ledger, nloaded, ext_coords, ext_flags, rtree_coords,
                   grid_dict, counter, queue, cur, stack, patches, center_coord,
                   err, fbuf, disk, draws, skipped, started, attempts, saved,
                   returned, logged>>

\* line 614, `self.value += delta`: the write of self.value, delta = 1
counter_store(w) ==
    /\ pc[w] = "store"
    /\ counter' = [counter EXCEPT !.value = tmp[w] + 1]
    /\ pc' = [pc EXCEPT ![w] = "count"]
    /\ UNCHANGED <<arg, res, mode, run, ledger, nloaded, ext_coords, ext_flags, rtree_coords,
                   grid_dict, queue, cur, stack, patches, center_coord, err, tmp,
                   fbuf, disk, draws, skipped, started, attempts, saved, returned,
                   logged>>

\* line 615, `return self.value`, the release of the lock, and lines 861-863:
\* count is the returned value, printed when it is a multiple of log_freq
counter_return(w) ==
    /\ pc[w] = "count"
    /\ counter' = [counter EXCEPT !.lock = 0]
    /\ returned' = returned \cup {<<cur[w], counter.value>>}
    /\ logged' = IF counter.value % log_freq = 0
                 THEN Append(logged, counter.value) ELSE logged
    /\ tmp' = [tmp EXCEPT ![w] = 0]
    /\ pc' = [pc EXCEPT ![w] = "open"]
    /\ UNCHANGED <<arg, res, mode, run, ledger, nloaded, ext_coords, ext_flags, rtree_coords,
                   grid_dict, queue, cur, stack, patches, center_coord, err, fbuf,
                   disk, draws, skipped, started, attempts, saved>>

\* line 868, `open(ext_path, "a")`
ledger_open(w) ==
    /\ pc[w] = "open"
    /\ fbuf' = [fbuf EXCEPT ![w] = <<>>]
    /\ pc' = [pc EXCEPT ![w] = "write"]
    /\ UNCHANGED <<arg, res, mode, run, ledger, nloaded, ext_coords, ext_flags, rtree_coords,
                   grid_dict, counter, queue, cur, stack, patches, center_coord,
                   err, tmp, disk, draws, skipped, started, attempts, saved,
                   returned, logged>>

\* success that does not tell the modes apart: 1 for every index with patches
success_any_mode(w) == IF ~patches[w].isNone THEN 1 ELSE 0

\* lines 870-876
success(w) == IF ~patches[w].isNone THEN (IF mode = "match" THEN 2 ELSE 1) ELSE 0

\* ledger_writerow that writes a row only for an index with patches
ledger_writerow_success_only(w) ==
    /\ pc[w] = "write"
    /\ fbuf' = [fbuf EXCEPT ![w] =
                   IF patches[w].isNone THEN @
                   ELSE Append(@, <<str(cur[w]), center_coord[w][1],
                                    center_coord[w][2], success(w)>>)]
    /\ pc' = [pc EXCEPT ![w] = "close"]
    /\ UNCHANGED <<arg, res, mode, run, ledger, nloaded, ext_coords, ext_flags, rtree_coords,
                   grid_dict, counter, queue, cur, stack, patches, center_coord,
                   err, tmp, disk, draws, skipped, started, attempts, saved,
                   returned, logged>>

\* lines 877-878: the row goes to the buffer of the file object
ledger_writerow(w) ==
    /\ pc[w] = "write"
    /\ fbuf' = [fbuf EXCEPT ![w] =
                   Append(@, <<str(cur[w]), center_coord[w][1], center_coord[w][2],
                               success(w)>>)]
    /\ pc' = [pc EXCEPT ![w] = "close"]
    /\ UNCHANGED <<arg, res, mode, run, ledger, nloaded, ext_coords, ext_flags, rtree_coords,
                   grid_dict, counter, queue, cur, stack, patches, center_coord,
                   err, tmp, disk, draws, skipped, started, attempts, saved,
                   returned, logged>>

\* ledger_close for a file opened with mode "w": the buffer replaces the file
ledger_close_truncate(w) ==
    /\ pc[w] = "close"
    /\ ledger' = fbuf[w]
    /\ fbuf' = [fbuf EXCEPT ![w] = <<>>]
    /\ cur' = [cur EXCEPT ![w] = 0]
    /\ patches' = [patches EXCEPT ![w] = None]
    /\ center_coord' = [center_coord EXCEPT ![w] = <<0, 0>>]
    /\ err' = [err EXCEPT ![w] = 0]
    /\ pc' = [pc EXCEPT ![w] = "idle"]
    /\ UNCHANGED <<arg, res, mode, run, nloaded, ext_coords, ext_flags, rtree_coords,
                   grid_dict, counter, queue, stack, tmp, disk, draws, skipped,
                   started, attempts, saved, returned, logged>>

\* the end of the `with` block of line 868: the buffer is written at the end of
\* the file (append mode) and the file is closed; worker() returns (line 880)
ledger_close(w) ==
    /\ pc[w] = "close"
    /\ ledger' = ledger \o fbuf[w]
    /\ fbuf' = [fbuf EXCEPT ![w] = <<>>]
    /\ cur' = [cur EXCEPT ![w] = 0]
    /\ patches' = [patches EXCEPT ![w] = None]
    /\ center_coord' = [center_coord EXCEPT ![w] = <<0, 0>>]
    /\ err' = [err EXCEPT ![w] = 0]
    /\ pc' = [pc EXCEPT ![w] = "idle"]
    /\ UNCHANGED <<arg, res, mode, run, nloaded, ext_coords, ext_flags, rtree_coords,
                   grid_dict, counter, queue, stack, tmp, disk, draws, skipped,
                   started, attempts, saved, returned, logged>>

\* one step of worker() in the thread w
Step(w) ==
    \/ worker_skip_check(w)
    \/ get_random_patches_match(w)
    \/ sample_point(w)
    \/ rtree_check(w)
    \/ rtree_accept(w)
    \/ grid_check(w)
    \/ grid_accept(w)
    \/ resolve(w)
    \/ return_patches(w)
    \/ persist(w)
    \/ counter_acquire(w)
    \/ counter_load(w)
    \/ counter_store(w)
    \/ counter_return(w)
    \/ ledger_open(w)
    \/ ledger_writerow(w)
    \/ ledger_close(w)

\* lines 897-900, num_workers > 0: the threads of the pool run worker()
\* concurrently; then the next run of the program
Next ==
    \/ \E w \in Workers : Step(w)
    \/ main_resume

Spec == Init /\ [][Next]_vars

\* lines 894-896, num_workers = 0: the main thread calls worker() for one index
\* after the other
NextSeq ==
    \/ Step(1)
    \/ main_resume

SpecSeq == Init /\ [][NextSeq]_vars

\* the rows in the buffers of the file objects of the threads S, in the order
\* in which the buffers are written out
RECURSIVE flushed(_)
flushed(S) ==
    IF S = {} THEN <<>>
    ELSE LET w == CHOOSE w \in S : TRUE IN fbuf[w] \o flushed(S \ {w})

\* the run is interrupted (module docstring, "resume from interruption"): the
\* process ends wherever its threads are.  A thread inside the loop of lines
\* 853-859 has written the patches of the first k date windows; the row of a
\* thread inside the `with` block of lines 868-878 is in the buffer of the file
\* object and reaches the file if the block is left by an exception
\* (KeyboardInterrupt), not if the process is killed.  Files stay as they are,
\* the indices left in the queue are not processed, and no thread takes
\* another step: the file a later --resume reads is the ledger of this state.
interrupt ==
    /\ \E w \in Workers : pc[w] \notin {"idle", "killed"}
    /\ \E k \in [Workers -> 0..NumDates], flush \in SUBSET Workers :
          /\ disk' = disk \cup
                 {[idx |-> cur[w], date |-> d, coords |-> patches[w].list[d].coords] :
                     <<w, d>> \in {x \in Workers \X Dates :
                                     /\ pc[x[1]] = "persist"
                                     /\ ~patches[x[1]].isNone
                                     /\ x[2] <= k[x[1]]}}
          /\ \A w \in Workers :
                 /\ (pc[w] # "persist" \/ patches[w].isNone) => k[w] = 0
                 /\ w \in flush => pc[w] = "close"
          /\ ledger' = ledger \o flushed(flush)
    /\ pc' = [w \in Workers |-> "killed"]
    /\ stack' = [w \in Workers |-> <<>>]
    /\ patches' = [w \in Workers |-> None]
    /\ center_coord' = [w \in Workers |-> <<0, 0>>]
    /\ err' = [w \in Workers |-> 0]
    /\ tmp' = [w \in Workers |-> 0]
    /\ fbuf' = [w \in Workers |-> <<>>]
    /\ UNCHANGED <<arg, res, mode, run, nloaded, ext_coords, ext_flags, rtree_coords,
                   grid_dict, counter, queue, cur, draws, skipped, started, attempts,
                   saved, returned, logged>>

\* the runs of the program when a run may be interrupted
NextInterrupt ==
    \/ \E w \in Workers : Step(w)
    \/ main_resume
    \/ interrupt

SpecInterrupt == Init /\ [][NextInterrupt]_vars

\* ========================================================= pure functions
\* The functions below have no state.  SpecPure draws the arguments of one
\* call from bounded sets (InitPure) and makes the call in one step.

main_vars == <<mode, run, ledger, nloaded, ext_coords, ext_flags, rtree_coords,
               grid_dict, counter, queue, pc, cur, stack, patches, center_coord,
               err, tmp, fbuf, disk, draws, skipped, started, attempts, saved,
               returned, logged>>

\* ------------------------------------------------------------ get_period
\* A datetime.date is <<year, month, day>>.
Years == 2017..2026   \* the years of the dates the model converts

is_leap(y) == y % 4 = 0 /\ (y % 100 # 0 \/ y % 400 = 0)

days_in_month(y, m) ==
    IF m = 2 THEN (IF is_leap(y) THEN 29 ELSE 28)
    ELSE IF m \in {4, 6, 9, 11} THEN 30 ELSE 31

\* number of days before January 1st of year y
days_before_year(y) ==
    (y - 1) * 365 + (y - 1) \div 4 - (y - 1) \div 100 + (y - 1) \div 400

RECURSIVE days_before_month(_, _)
days_before_month(y, m) ==
    IF m = 1 THEN 0 ELSE days_before_month(y, m - 1) + days_in_month(y, m - 1)

\* date.toordinal()
toordinal(dt) == days_before_year(dt[1]) + days_before_month(dt[1], dt[2]) + dt[3]

\* date.fromordinal(n), the inverse of toordinal
fromordinal(n) ==
    LET y == CHOOSE y \in Years :
                 days_before_year(y) < n /\ n <= days_before_year(y + 1)
        m == CHOOSE m \in 1..12 :
                 /\ days_before_month(y, m) < n - days_before_year(y)
                 /\ n - days_before_year(y) <= days_before_month(y, m) + days_in_month(y, m)
    IN  <<y, m, n - days_before_year(y) - days_before_month(y, m)>>

\* timedelta(days=x) for x = halves / 2: the normalised fields days, seconds
timedelta(halves) == [days |-> halves \div 2, seconds |-> (halves % 2) * 43200]

\* date + timedelta and date - timedelta use the field `days` only
date_add(dt, td) == fromordinal(toordinal(dt) + td.days)
date_sub(dt, td) == fromordinal(toordinal(dt) - td.days)

\* the decimal digits of n, zero-padded to the given width
RECURSIVE zfill(_, _)
zfill(n, width) ==
    IF width = 0 THEN "" ELSE zfill(n \div 10, width - 1) \o Digits[(n % 10) + 1]

\* date.strftime("%Y-%m-%d")
date2str(dt) == zfill(dt[1], 4) \o "-" \o zfill(dt[2], 2) \o "-" \o zfill(dt[3], 2)

\* get_period whose second sub-range is the same days of the year before
get_period_calendar_year(dt, days) ==
    LET date1 == date_sub(dt, timedelta(days))
        date2 == date_add(dt, timedelta(days))
    IN  <<date2str(date1), date2str(date2),
          date2str(<<date1[1] - 1, date1[2], date1[3]>>),
          date2str(<<date2[1] - 1, date2[2], date2[3]>>)>>

\* lines 236-246; days / 2 is `days` halves of a day
get_period(dt, days) ==
    LET date1 == date_sub(dt, timedelta(days))
        date2 == date_add(dt, timedelta(days))
        date3 == date_sub(date1, timedelta(2 * 365))
        date4 == date_sub(date2, timedelta(2 * 365))
    IN  <<date2str(date1), date2str(date2), date2str(date3), date2str(date4)>>

\* the reference dates: the defaults of --dates, and dates around a leap day
\* and the turn of a year
PeriodDates ==
    {<<2021, 12, 21>>, <<2021, 9, 22>>, <<2021, 6, 21>>, <<2021, 3, 20>>,
     <<2020, 2, 29>>, <<2020, 3, 1>>, <<2020, 12, 31>>, <<2021, 1, 1>>,
     <<2024, 2, 29>>, <<2022, 7, 15>>}

\* the widths: 60 and 30 (the call sites), 5 (the default), and others
PeriodDays == {2, 5, 30, 31, 60, 364, 366, 400}

PeriodInputs == [fn : {"get_period"}, date : PeriodDates, days : PeriodDays]

call_get_period ==
    /\ ~res.called
    /\ arg.fn = "get_period"
    /\ res' = Called(get_period(arg.date, arg.days))
    /\ UNCHANGED <<main_vars, arg>>

\* ----------------------------------------------------------- center_crop
\* An array is a sequence of rows, a row a sequence of pixels; the pixel of a
\* source array is its own position <<row, column>>, counted from 0.
Image(H, W) == [r \in 1..H |-> [c \in 1..W |-> <<r - 1, c - 1>>]]

\* img.shape[:2]
shape(img) == <<Len(img), IF Len(img) = 0 THEN 0 ELSE Len(img[1])>>

Min(a, b) == IF a < b THEN a ELSE b
Max(a, b) == IF a > b THEN a ELSE b

\* seq[a:b]: a negative bound counts from the end, both bounds are clipped
py_slice(seq, a, b) ==
    LET n == Len(seq)
        start == IF a < 0 THEN Max(a + n, 0) ELSE Min(a, n)
        stop == IF b < 0 THEN Max(b + n, 0) ELSE Min(b, n)
    IN  SubSeq(seq, start + 1, stop)

\* center_crop with the offsets rounded down: (H - h) // 2
center_crop_floor(img, out_size) ==
    LET crop_top == (shape(img)[1] - out_size[1]) \div 2
        crop_left == (shape(img)[2] - out_size[2]) \div 2
        rows == py_slice(img, crop_top, crop_top + out_size[1])
    IN  [i \in 1..Len(rows) |-> py_slice(rows[i], crop_left, crop_left + out_size[2])]

\* lines 294-301
center_crop(img, out_size) ==
    LET image_height == shape(img)[1]
        image_width == shape(img)[2]
        crop_height == out_size[1]
        crop_width == out_size[2]
        crop_top == (image_height - crop_height + 1) \div 2
        crop_left == (image_width - crop_width + 1) \div 2
        rows == py_slice(img, crop_top, crop_top + crop_height)
    IN  [i \in 1..Len(rows) |-> py_slice(rows[i], crop_left, crop_left + crop_width)]

Sides == 1..MaxSide

\* every source and target size up to MaxSide, and a column of 132 pixels
\* cropped to 44
CropInputs ==
    [fn : {"center_crop"},
     img : {Image(H, W) : H \in Sides, W \in Sides},
     out_size : Sides \X Sides]
    \cup {[fn |-> "center_crop", img |-> Image(132, 1), out_size |-> <<44, 1>>]}

call_center_crop ==
    /\ ~res.called
    /\ arg.fn = "center_crop"
    /\ res' = Called(center_crop(arg.img, arg.out_size))
    /\ UNCHANGED <<main_vars, arg>>

\* --------------------------------------------------------- adjust_coords
\* A float is an exact fraction <<numerator, denominator>> in lowest terms,
\* denominator > 0: the model leaves the rounding of float arithmetic out.
RECURSIVE gcd(_, _)
gcd(a, b) == IF b = 0 THEN a ELSE gcd(b, a % b)

Frac(n, d) ==
    LET g == gcd(Abs(n), Abs(d))
        sgn == IF d < 0 THEN -1 ELSE 1
    IN  <<(sgn * n) \div g, (sgn * d) \div g>>

float(i) == <<i, 1>>
fadd(a, b) == Frac(a[1] * b[2] + b[1] * a[2], a[2] * b[2])
fsub(a, b) == Frac(a[1] * b[2] - b[1] * a[2], a[2] * b[2])
fmul(a, b) == Frac(a[1] * b[1], a[2] * b[2])
fdiv(a, b) == Frac(a[1] * b[2], a[2] * b[1])

\* int(n * 0.5): the half of n, rounded towards zero
int_half(n) == IF n >= 0 THEN n \div 2 ELSE -((-n) \div 2)

\* adjust_coords with the offsets of a crop whose margin is halved rounding
\* down: int((old - new) * 0.5)
adjust_coords_floor(coords, old_size, new_size) ==
    LET xres == fdiv(fsub(coords[2][1], coords[1][1]), float(old_size[2]))
        yres == fdiv(fsub(coords[1][2], coords[2][2]), float(old_size[1]))
        xoff == int_half(old_size[2] - new_size[2])
        yoff == int_half(old_size[1] - new_size[1])
    IN  << <<fadd(coords[1][1], fmul(float(xoff), xres)),
             fsub(coords[1][2], fmul(float(yoff), yres))>>,
           <<fadd(coords[1][1], fmul(float(xoff + new_size[2]), xres)),
             fsub(coords[1][2], fmul(float(yoff + new_size[1]), yres))>> >>

\* lines 304-317; coords is <<top-left, bottom-right>>, a corner <<x, y>>, a
\* size <<height, width>>
adjust_coords(coords, old_size, new_size) ==
    LET xres == fdiv(fsub(coords[2][1], coords[1][1]), float(old_size[2]))
        yres == fdiv(fsub(coords[1][2], coords[2][2]), float(old_size[1]))
        xoff == int_half(old_size[2] - new_size[2] + 1)
        yoff == int_half(old_size[1] - new_size[1] + 1)
    IN  << <<fadd(coords[1][1], fmul(float(xoff), xres)),
             fsub(coords[1][2], fmul(float(yoff), yres))>>,
           <<fadd(coords[1][1], fmul(float(xoff + new_size[2]), xres)),
             fsub(coords[1][2], fmul(float(yoff + new_size[1]), yres))>> >>

\* two-corner boxes <<(min x, max y), (max x, min y)>>
Boxes ==
    {<< <<float(x), float(y)>>, <<float(x + dx), float(y - dy)>> >> :
        x \in {-3, 10}, y \in {7}, dx \in {5, 12}, dy \in {5, 8}}

AdjustInputs ==
    [fn : {"adjust_coords"}, coords : Boxes,
     old_size : Sides \X Sides, new_size : Sides \X Sides]

call_adjust_coords ==
    /\ ~res.called
    /\ arg.fn = "adjust_coords"
    /\ res' = Called(adjust_coords(arg.coords, arg.old_size, arg.new_size))
    /\ UNCHANGED <<main_vars, arg>>

\* -------------------------------------------------------------- get_patch
\* `features` is what patch.getInfo() returned: the array of every band and
\* the ring of the sampled region; `crop` is band -> size, or None, written
\* as the mapping without bands.
NoCrop == <<>>

Range(f) == {f[x] : x \in DOMAIN f}
MinOf(S) == CHOOSE x \in S : \A y \in S : x <= y
MaxOf(S) == CHOOSE x \in S : \A y \in S : y <= x

\* get_patch that crops every band to the size of the first band
get_patch_one_crop(features, bands, crop) ==
    LET raster == [band \in Range(bands) |->
                      IF crop # NoCrop
                      THEN center_crop(features.properties[band], crop[bands[1]])
                      ELSE features.properties[band]]
        coords0 == features.geometry
        coords == << <<float(MinOf({q[1] : q \in Range(coords0)})),
                       float(MaxOf({q[2] : q \in Range(coords0)}))>>,
                     <<float(MaxOf({q[1] : q \in Range(coords0)})),
                       float(MinOf({q[2] : q \in Range(coords0)}))>> >>
        old_size == <<Len(features.properties[bands[1]]),
                      Len(features.properties[bands[1]][1])>>
        new_size == shape(raster[bands[1]])
    IN  [raster |-> raster,
         coords |-> IF crop # NoCrop THEN adjust_coords(coords, old_size, new_size)
                    ELSE coords]

\* lines 338-363, from the downloaded `features` on
get_patch(features, bands, crop) ==
    LET raster == [band \in Range(bands) |->
                      IF crop # NoCrop
                      THEN center_crop(features.properties[band], crop[band])
                      ELSE features.properties[band]]
        coords0 == features.geometry
        coords == << <<float(MinOf({q[1] : q \in Range(coords0)})),
                       float(MaxOf({q[2] : q \in Range(coords0)}))>>,
                     <<float(MaxOf({q[1] : q \in Range(coords0)})),
                       float(MinOf({q[2] : q \in Range(coords0)}))>> >>
        old_size == <<Len(features.properties[bands[1]]),
                      Len(features.properties[bands[1]][1])>>
        new_size == shape(raster[bands[1]])
    IN  [raster |-> raster,
         coords |-> IF crop # NoCrop THEN adjust_coords(coords, old_size, new_size)
                    ELSE coords]

\* two bands, each with its own source size and its own square crop size
\* (line 749), or no crop
Bands == <<"B1", "B2">>
Ring == << <<0, 0>>, <<0, 12>>, <<12, 12>>, <<12, 0>>, <<0, 0>> >>

PatchInputs ==
    [fn : {"get_patch"},
     features : [properties : [Range(Bands) -> {Image(H, W) : H \in Sides, W \in Sides}],
                 geometry : {Ring}],
     bands : {Bands},
     crop : {[band \in Range(Bands) |-> <<c[band], c[band]>>] :
                 c \in [Range(Bands) -> Sides]} \cup {NoCrop}]

call_get_patch ==
    /\ ~res.called
    /\ arg.fn = "get_patch"
    /\ res' = Called(get_patch(arg.features, arg.bands, arg.crop))
    /\ UNCHANGED <<main_vars, arg>>

\* ------------------------------------------------------------- save_patch
\* lines 566-587: the GeoTIFF written for one band: the array and the
\* geotransform (origin of the top-left pixel's corner, pixel size) derived
\* from `coords` and the array's own width and height
save_geotiff(img, coords) ==
    LET height == shape(img)[1]
        width == shape(img)[2]
        xres == fdiv(fsub(coords[2][1], coords[1][1]), float(width))
        yres == fdiv(fsub(coords[1][2], coords[2][2]), float(height))
    IN  [img |-> img, coords |-> coords, xres |-> xres, yres |-> yres,
         translation |-> <<fsub(coords[1][1], fdiv(xres, float(2))),
                           fadd(coords[1][2], fdiv(yres, float(2)))>>]

\* lines 590-604: one file per band of the raster, all with the one `coords`
save_patch(raster, coords) ==
    [band \in DOMAIN raster |-> save_geotiff(raster[band], coords)]

\* lines 854-860: worker() saves the patch get_patch returned
call_save_patch ==
    /\ res.called
    /\ arg.fn = "get_patch"
    /\ "files" \notin DOMAIN res
    /\ res' = [called |-> TRUE, value |-> res.value,
               files |-> save_patch(res.value.raster, res.value.coords)]
    /\ UNCHANGED <<main_vars, arg>>

\* ------------------------------------------- the R-tree check on its own
\* points of a lattice of 0.01 degrees
Points == {<<x, y>> : x \in 0..3, y \in 0..1}

\* the R-trees that rtree_insert builds from at most n points
RECURSIVE Rtrees(_)
Rtrees(n) ==
    IF n = 0 THEN {<<>>}
    ELSE Rtrees(n - 1) \cup
         {rtree_insert(rt, p) : rt \in {t \in Rtrees(n - 1) : Len(t) = n - 1},
                                p \in Points}

\* --radius: the default, and 2224 m, for which three lattice steps
\* (3 * 1112 m) are the threshold 1.5 * radius exactly
Radii == {radius, 2224}

RtreeInputs ==
    [fn : {"rtree_overlap"}, rtree_obj : Rtrees(MaxEntries), coords : Points,
     radius : Radii]

call_rtree_overlap ==
    /\ ~res.called
    /\ arg.fn = "rtree_overlap"
    /\ res' = Called(rtree_overlap_radius(arg.rtree_obj, arg.coords, arg.radius))
    /\ UNCHANGED <<main_vars, arg>>

\* ------------------------------------------------------- the specification
PureInputs == PeriodInputs \cup CropInputs \cup AdjustInputs \cup PatchInputs
              \cup RtreeInputs

InitPure ==
    /\ arg \in PureInputs
    /\ res = NotCalled
    /\ mode = "match"
    /\ run = 1
    /\ ledger = <<>>
    /\ nloaded = 0
    /\ ext_coords = <<>>
    /\ ext_flags = <<>>
    /\ rtree_coords = <<>>
    /\ grid_dict = <<>>
    /\ counter = [value |-> 0, lock |-> 0]
    /\ queue = <<>>
    /\ pc = [w \in Workers |-> "idle"]
    /\ cur = [w \in Workers |-> 0]
    /\ stack = [w \in Workers |-> <<>>]
    /\ patches = [w \in Workers |-> None]
    /\ center_coord = [w \in Workers |-> <<0, 0>>]
    /\ err = [w \in Workers |-> 0]
    /\ tmp = [w \in Workers |-> 0]
    /\ fbuf = [w \in Workers |-> <<>>]
    /\ disk = {}
    /\ draws = 0
    /\ skipped = {}
    /\ started = {}
    /\ attempts = [i \in Indices |-> 0]
    /\ saved = {}
    /\ returned = {}
    /\ logged = <<>>

NextPure ==
    \/ call_get_period
    \/ call_center_crop
    \/ call_adjust_coords
    \/ call_get_patch
    \/ call_save_patch
    \/ call_rtree_overlap

SpecPure == InitPure /\ [][NextPure]_vars

\* ================================================================== claims
\* rows of the ledger file that this run appended / that it read at startup
NewRows == (nloaded + 1)..Len(ledger)
OldRows == 1..nloaded

HasRecord(i) == \E k \in OldRows : ledger[k][1] = str(i)

\* the status of the last row the loaded file has for index i
LastStatus(i) ==
    LET k == CHOOSE k \in OldRows :
                 /\ ledger[k][1] = str(i)
                 /\ \A m \in OldRows : ledger[m][1] = str(i) => m <= k
    IN  ledger[k][4]

Busy(w) == pc[w] # "idle"
AllDone == queue = <<>> /\ \A w \in Workers : ~Busy(w)

\* C1: an index with a loaded record is skipped in match mode whatever its
\* status and in a sample mode only when the status is not 0; an index without
\* a loaded record is processed; a skipped index is not resolved, not
\* persisted, not counted and gets no ledger row.
C1_SkipOnResume ==
    /\ \A i \in skipped :
          /\ HasRecord(i)
          /\ mode = "match" \/ LastStatus(i) # 0
          /\ attempts[i] = 0
          /\ i \notin saved
          /\ \A r \in returned : r[1] # i
          /\ \A k \in NewRows : ledger[k][1] # str(i)
          /\ \A w \in Workers : Busy(w) => cur[w] # i
    /\ \A i \in started :
          \/ ~HasRecord(i)
          \/ mode # "match" /\ LastStatus(i) = 0

\* a sample-mode run has skipped an index recorded with status 2 and has
\* reprocessed, up to its new row, an index recorded with status 0
C1_Witness ==
    /\ mode \in {"rtree", "grid"}
    /\ \E i \in skipped, j \in started :
          /\ HasRecord(i) /\ LastStatus(i) = 2
          /\ HasRecord(j) /\ LastStatus(j) = 0
          /\ \E k \in NewRows : ledger[k][1] = str(j)

\* C2: in R-tree mode, starting from an empty index, every coordinate recorded
\* with status 1 is at distance >= 1.5 * radius from every coordinate recorded
\* earlier for another index.
C2_AcceptedSeparated ==
    (mode = "rtree" /\ nloaded = 0) =>
        \A i, j \in 1..Len(ledger) :
            (i < j /\ ledger[j][4] = 1 /\ ledger[i][1] # ledger[j][1]) =>
                ~Overlap(<<ledger[i][2], ledger[i][3]>>, <<ledger[j][2], ledger[j][3]>>)

\* C3: any two entries the sampling path has inserted into an R-tree that
\* started empty are at distance >= 1.5 * radius from each other.
C3_RtreeEntriesSeparated ==
    (mode = "rtree" /\ nloaded = 0) =>
        \A i, j \in 1..Len(rtree_coords) :
            i < j => ~Overlap(rtree_coords[i][2], rtree_coords[j][2])

\* the point c lies in the one-degree cell k = (floor(lon + 180), floor(lat + 90))
InCell(c, k) ==
    /\ 100 * k[1] <= c[1] + 18000 /\ c[1] + 18000 < 100 * (k[1] + 1)
    /\ 100 * k[2] <= c[2] + 9000 /\ c[2] + 9000 < 100 * (k[2] + 1)

\* C4: the grid check rejects a candidate only for a point stored under the
\* candidate's own cell key that is closer than the threshold; a candidate
\* whose cell has no stored point is accepted and stored under that key,
\* whatever the neighbouring cells hold.
C4_GridSameCellOnly ==
    [][\A w \in Workers :
          LET c == Top(w).coords IN
          /\ (pc[w] = "g_check" /\ pc'[w] = "call_overlap") =>
                 \E k \in DOMAIN grid_dict :
                     InCell(c, k) /\ \E p \in grid_dict[k] : Overlap(c, p)
          /\ (/\ pc[w] = "g_check" /\ pc'[w] # "g_check"
              /\ ~\E k \in DOMAIN grid_dict : InCell(c, k)) =>
                 pc'[w] = "g_new"
          /\ (pc[w] = "g_new" /\ pc'[w] = "resolve") =>
                 \E k \in DOMAIN grid_dict' : InCell(c, k) /\ c \in grid_dict'[k]
      ]_vars

\* the grid that started empty holds two points closer than the threshold, in
\* different cells
C4_Witness ==
    /\ mode = "grid" /\ nloaded = 0
    /\ \E k1, k2 \in DOMAIN grid_dict :
          /\ k1 # k2
          /\ \E p \in grid_dict[k1], q \in grid_dict[k2] : Overlap(p, q)

RowsOf(i) == {k \in NewRows : ledger[k][1] = str(i)}
Completed(i) == i \in started /\ \A w \in Workers : Busy(w) => cur[w] # i

\* C5: an index processed to completion has exactly one row appended in the
\* run, an index not (yet) completed has none; the row is appended from the
\* index, the coordinate returned to worker() and the outcome: status 0 exactly
\* when no patches were returned.
C5_OneRowPerProcessedIndex ==
    /\ [](\A i \in Indices :
             Cardinality(RowsOf(i)) = IF Completed(i) THEN 1 ELSE 0)
    /\ [][\A w \in Workers :
             (pc[w] = "close" /\ pc'[w] = "idle") =>
                 /\ Len(ledger') = Len(ledger) + 1
                 /\ ledger'[Len(ledger')][1] = str(cur[w])
                 /\ ledger'[Len(ledger')][2] = center_coord[w][1]
                 /\ ledger'[Len(ledger')][3] = center_coord[w][2]
                 /\ (ledger'[Len(ledger')][4] = 0) <=> patches[w].isNone
         ]_vars

\* a run has ended with a row of status 0 for one index and a row of another
\* status for another
C5_Witness ==
    /\ AllDone
    /\ \E i, j \in Indices :
          /\ Completed(i) /\ Completed(j)
          /\ \E k \in RowsOf(i) : ledger[k][4] = 0
          /\ \E k \in RowsOf(j) : ledger[k][4] # 0

InAppend(w) == pc[w] \in {"write", "close"}

\* C6: at most one worker at a time is between the open and the close of the
\* ledger file.
C6_AppendMutex ==
    \A w1, w2 \in Workers : (InAppend(w1) /\ InAppend(w2)) => w1 = w2

\* C7: every step leaves the rows already in the ledger file where they are:
\* the file before the step is a prefix of the file after it, within a run and
\* from one run to the next.
C7_AppendOnly ==
    [][/\ Len(ledger') >= Len(ledger)
       /\ \A k \in 1..Len(ledger) : ledger'[k] = ledger[k]]_vars

\* a resumed run has appended a row behind the rows of the run before
C7_Witness == run > 1 /\ nloaded > 0 /\ Len(ledger) > nloaded

\* C8: after any sequence of resumed runs the ledger file holds at most one
\* row for each index.
C8_OneRowPerIndex ==
    \A i, j \in 1..Len(ledger) : ledger[i][1] = ledger[j][1] => i = j

\* C8 as amended: the ledger file holds at most one row for each index, except
\* that an index whose row has status 0 gets one further row, of status 1,
\* behind it (a sample-mode run reprocesses it); no index gets a row behind its
\* row of status 1 or 2.
C8_OneRowPerIndexAmended ==
    /\ \A i, j \in 1..Len(ledger) :
          (i < j /\ ledger[i][1] = ledger[j][1]) =>
              ledger[i][4] = 0 /\ ledger[j][4] = 1
    /\ \A i \in Indices :
          Cardinality({k \in 1..Len(ledger) : ledger[k][1] = str(i)}) <= 2

\* the second run has ended; one index has a row of status 0 and behind it a
\* row of status 1, another index has only the one row of the first run
C8_Witness ==
    /\ run > 1 /\ AllDone
    /\ \E i, j \in 1..Len(ledger) :
          i < j /\ ledger[i][1] = ledger[j][1] /\ ledger[i][4] = 0 /\ ledger[j][4] = 1
    /\ \E i \in Indices :
          Cardinality({k \in 1..Len(ledger) : ledger[k][1] = str(i)}) = 1

InUpdate(w) == pc[w] \in {"load", "store", "count"}

\* C9: Counter.update is atomic (one worker at a time between the entry and
\* the exit of the lock), no two calls return the same value, no count is
\* logged twice, and when the run has ended the counter is the number of
\* indices that succeeded in the run, each of which got one returned value,
\* and every multiple of log_freq up to the counter was logged.
C9_CounterNoLostUpdate ==
    /\ \A w1, w2 \in Workers : (InUpdate(w1) /\ InUpdate(w2)) => w1 = w2
    /\ \A a, b \in returned : a[2] = b[2] => a = b
    /\ \A i, j \in 1..Len(logged) : logged[i] = logged[j] => i = j
    /\ AllDone =>
          /\ counter.value = Cardinality(saved)
          /\ {r[1] : r \in returned} = saved
          /\ \A i \in skipped : i \notin saved
          /\ \A k \in NewRows : ledger[k][4] = 0 => int(ledger[k][1]) \notin saved
          /\ \A m \in 1..counter.value :
                m % log_freq = 0 => \E i \in 1..Len(logged) : logged[i] = m

\* a run has ended in which every index succeeded and the last count was logged
C9_Witness ==
    /\ AllDone
    /\ counter.value = NumIdx
    /\ Len(logged) > 0 /\ logged[Len(logged)] = counter.value

AfterMatch(w) ==
    pc[w] \in {"persist", "update", "load", "store", "count", "open", "write", "close"}

\* C10: in match mode no coordinate is sampled and an index is resolved at
\* most once; an index for which a remote call raised has no patch persisted,
\* no counter value, and its one row has status 0 and the coordinate of the
\* match table; an index has patches persisted only if no call raised, and
\* then the patches of every date window.
C10_MatchAllOrNothing ==
    mode = "match" =>
        /\ draws = 0
        /\ \A i \in Indices : attempts[i] <= 1 /\ Cardinality(RowsOf(i)) <= 1
        /\ \A w \in Workers :
              (AfterMatch(w) /\ err[w] # 0) =>
                  /\ cur[w] \notin saved
                  /\ \A r \in returned : r[1] # cur[w]
                  /\ \A d \in Dates, c \in Candidates :
                        [idx |-> cur[w], date |-> d, coords |-> c] \notin disk
                  /\ pc[w] = "close" =>
                        fbuf[w] = << <<str(cur[w]), match_coords[str(cur[w])][1],
                                       match_coords[str(cur[w])][2], 0>> >>
        /\ \A k \in NewRows :
              /\ ledger[k][2] = match_coords[ledger[k][1]][1]
              /\ ledger[k][3] = match_coords[ledger[k][1]][2]
              /\ ledger[k][4] \in {0, 2}
              /\ (ledger[k][4] = 0) <=> int(ledger[k][1]) \notin saved
              /\ ledger[k][4] = 0 => \A r \in returned : r[1] # int(ledger[k][1])
        /\ \A i \in saved : \A d \in Dates :
              [idx |-> i, date |-> d, coords |-> match_coords[str(i)]] \in disk

\* a match-mode run in which a remote call raised for an index: its one
\* resolution attempt is over, nothing of it was persisted, and its row of
\* status 0 is in the file
C10_Witness ==
    /\ mode = "match"
    /\ \E k \in NewRows :
          /\ ledger[k][4] = 0
          /\ int(ledger[k][1]) \notin saved
          /\ attempts[int(ledger[k][1])] = 1

SampleMode == mode \in {"rtree", "grid"}

\* C11: in a sample mode a resolution that raised is followed by the draw of
\* a new coordinate (a new call of the function, which goes through every date
\* window again); the pair returned to worker() is never None but the patches
\* of every date window, all of one coordinate, the one that is recorded; no
\* row of status 0 is appended.
C11_SampleRecovers ==
    /\ [](SampleMode =>
            /\ \A k \in NewRows : ledger[k][4] = 1
            /\ \A w \in Workers :
                  AfterMatch(w) =>
                      /\ ~patches[w].isNone
                      /\ Len(patches[w].list) = NumDates
                      /\ \A d \in Dates :
                            /\ patches[w].list[d].date = d
                            /\ patches[w].list[d].coords = center_coord[w]
            /\ \A i \in saved :
                  \E c \in Candidates :
                      \A d \in Dates : [idx |-> i, date |-> d, coords |-> c] \in disk)
    /\ [][\A w \in Workers :
             /\ (pc[w] = "resolve" /\ pc'[w] # "resolve" /\ err'[w] # 0) =>
                    pc'[w] = "call_fail"
             /\ (pc[w] = "call_fail" /\ pc'[w] # "call_fail") =>
                    /\ draws' = draws + 1
                    /\ Len(stack'[w]) = Len(stack[w]) + 1
                    /\ stack'[w][Len(stack'[w])].coords \in Candidates
                    /\ pc'[w] \in {"r_nearest", "g_check"}
         ]_vars

\* the call made after a resolution raised is returning the patches of every
\* date window to the frame that failed
C11_Witness ==
    /\ SampleMode
    /\ \E w \in Workers :
          /\ pc[w] = "return"
          /\ Top(w).site = "call_fail"
          /\ ~patches[w].isNone
          /\ Len(patches[w].list) = NumDates

\* C12: every row of the file has a status in {0, 1, 2}; a row appended in
\* this run has status 2 exactly when its index got patches in match mode,
\* 1 exactly when it got patches in a sample mode, 0 exactly when it got none;
\* the row a worker is about to append is built that way from `patches`.
C12_StatusEncoding ==
    /\ \A k \in 1..Len(ledger) : ledger[k][4] \in {0, 1, 2}
    /\ \A k \in NewRows :
          LET i == int(ledger[k][1]) IN
          /\ (ledger[k][4] = 2) <=> (i \in saved /\ mode = "match")
          /\ (ledger[k][4] = 1) <=> (i \in saved /\ SampleMode)
          /\ (ledger[k][4] = 0) <=> (i \notin saved)
    /\ \A w \in Workers :
          pc[w] = "close" =>
              /\ Len(fbuf[w]) = 1
              /\ (fbuf[w][1][4] = 2) <=> (~patches[w].isNone /\ mode = "match")
              /\ (fbuf[w][1][4] = 1) <=> (~patches[w].isNone /\ SampleMode)
              /\ (fbuf[w][1][4] = 0) <=> patches[w].isNone

\* the file holds rows of the three statuses, the last one appended by the
\* current run
C12_Witness ==
    /\ \A st \in {0, 1, 2} : \E k \in 1..Len(ledger) : ledger[k][4] = st
    /\ NewRows # {}

\* C17: in both sample modes the resolution block is entered only for a
\* candidate the overlap check accepted: the coordinate being resolved, and so
\* the coordinate returned to worker() to be persisted and recorded, is never
\* one for which OverlapError was raised.
C17_OnlyAcceptedResolved ==
    SampleMode =>
        \A w \in Workers : pc[w] = "resolve" => ~Top(w).overlap

\* the overlap index of the run's mode holds the point c
InIndex(c) ==
    IF mode = "rtree"
    THEN \E i \in 1..Len(rtree_coords) : rtree_coords[i][2] = c
    ELSE gridIndex(c) \in DOMAIN grid_dict /\ c \in grid_dict[gridIndex(c)]

\* the overlap check of the run's mode raises OverlapError for the candidate c
Rejects(c) ==
    IF mode = "rtree" THEN rtree_overlap(rtree_coords, c)
    ELSE grid_overlap(grid_dict, c)

\* C18: in both sample modes, when the resolution of an accepted candidate has
\* raised, the candidate's coordinate is in the overlap index when the next
\* candidate is drawn and as long as the retries go on, so that a candidate
\* closer to it than the threshold (grid: and of the same cell) is rejected.
C18_FailedSlotBurned ==
    SampleMode =>
        \A w \in Workers : \A n \in 1..Len(stack[w]) :
            LET f == stack[w][n] IN
            (/\ ~f.overlap
             /\ n < Len(stack[w]) \/ pc[w] = "call_fail") =>
                /\ InIndex(f.coords)
                /\ \A c \in Candidates :
                      (/\ Overlap(c, f.coords)
                       /\ mode = "grid" => gridIndex(c) = gridIndex(f.coords)) =>
                          Rejects(c)

\* the pool of the run has not handed any index to a worker yet
RunStart ==
    /\ queue = indices
    /\ started = {} /\ skipped = {}
    /\ \A w \in Workers : ~Busy(w)

\* the coordinate of the last row the loaded file has for index i
LastCoord(i) ==
    LET k == CHOOSE k \in OldRows :
                 /\ ledger[k][1] = str(i)
                 /\ \A m \in OldRows : ledger[m][1] = str(i) => m <= k
    IN  <<ledger[k][2], ledger[k][3]>>

\* C19: before any worker of a resumed sample-mode run starts, the R-tree and
\* the grid both hold the coordinate of the last row of every index the loaded
\* file has a row for, whatever the status of that row; every point of the
\* grid is stored under the key of its own one-degree cell; in a run without
\* resume both indexes start empty.
C19_IndexSeeding ==
    RunStart =>
        /\ run = 1 => (rtree_coords = <<>> /\ grid_dict = <<>>)
        /\ (run > 1 /\ SampleMode) =>
              /\ \A i \in Indices :
                    HasRecord(i) =>
                        /\ \E n \in 1..Len(rtree_coords) :
                              rtree_coords[n][2] = LastCoord(i)
                        /\ \E k \in DOMAIN grid_dict :
                              /\ InCell(LastCoord(i), k)
                              /\ LastCoord(i) \in grid_dict[k]
              /\ \A k \in DOMAIN grid_dict : \A p \in grid_dict[k] : InCell(p, k)

\* the third run, in a sample mode, is about to start from a file in which one
\* index has a row of status 0 followed by a row with another coordinate, and
\* another index has a single row
C19_Witness ==
    /\ RunStart /\ SampleMode /\ run > 1
    /\ \E i, j \in OldRows :
          /\ i < j /\ ledger[i][1] = ledger[j][1]
          /\ ledger[i][4] = 0
          /\ <<ledger[i][2], ledger[i][3]>> # <<ledger[j][2], ledger[j][3]>>
    /\ \E i \in Indices :
          Cardinality({k \in OldRows : ledger[k][1] = str(i)}) = 1

\* the calendar day after / before a date
tomorrow(dt) ==
    IF dt[3] < days_in_month(dt[1], dt[2]) THEN <<dt[1], dt[2], dt[3] + 1>>
    ELSE IF dt[2] < 12 THEN <<dt[1], dt[2] + 1, 1>>
    ELSE <<dt[1] + 1, 1, 1>>

yesterday(dt) ==
    IF dt[3] > 1 THEN <<dt[1], dt[2], dt[3] - 1>>
    ELSE IF dt[2] > 1 THEN <<dt[1], dt[2] - 1, days_in_month(dt[1], dt[2] - 1)>>
    ELSE <<dt[1] - 1, 12, 31>>

\* the date n days after (n > 0) or before (n < 0) a date, day by day (in two
\* halves; every year is > 0)
RECURSIVE Shift(_, _)
Shift(dt, n) ==
    IF n = 0 THEN dt
    ELSE IF n = 1 THEN tomorrow(dt)
    ELSE IF n = -1 THEN yesterday(dt)
    ELSE LET mid == Shift(dt, n \div 2)
         IN  IF mid[1] > 0 THEN Shift(mid, n - (n \div 2)) ELSE mid

Before(a, b) ==
    \/ a[1] < b[1]
    \/ a[1] = b[1] /\ a[2] < b[2]
    \/ a[1] = b[1] /\ a[2] = b[2] /\ a[3] < b[3]

\* C13: for an even width w, get_period(d, w) returns d - w/2, d + w/2,
\* d - w/2 - 365 and d + w/2 - 365 as "YYYY-MM-DD"; the second sub-range is
\* the first one 365 days earlier, and ends before the first begins when
\* w < 365; for 2021-12-21 and w = 60 the result is 2021-11-21, 2022-01-20,
\* 2020-11-21, 2021-01-20.
C13_DateWindow ==
    (res.called /\ arg.fn = "get_period" /\ arg.days % 2 = 0) =>
        LET h == arg.days \div 2
            d1 == Shift(arg.date, -h)
            d2 == Shift(arg.date, h)
            d3 == Shift(d1, -365)
            d4 == Shift(d2, -365)
        IN  /\ res.value = <<date2str(d1), date2str(d2), date2str(d3), date2str(d4)>>
            /\ toordinal(d1) - toordinal(d3) = 365
            /\ toordinal(d2) - toordinal(d4) = 365
            /\ arg.days < 365 => Before(d4, d1)
            /\ (arg.date = <<2021, 12, 21>> /\ arg.days = 60) =>
                  res.value = <<"2021-11-21", "2022-01-20", "2020-11-21", "2021-01-20">>

\* get_period was called for 2021-03-20 with w = 60: the earlier sub-range,
\* across the leap day of 2020, begins on 2020-02-19
C13_Witness ==
    /\ res.called /\ arg.fn = "get_period"
    /\ arg.date = <<2021, 3, 20>> /\ arg.days = 60
    /\ res.value = <<"2021-02-18", "2021-04-19", "2020-02-19", "2020-04-19">>

\* C14: for a target no larger than the source, center_crop returns rows
\* [top, top + h) and columns [left, left + w) of the source, with
\* top = floor((H - h + 1) / 2) and left = floor((W - w + 1) / 2); the margin
\* above / left of the crop equals the margin below / right of it when the
\* total margin is even and is one more when it is odd; a target equal to the
\* source returns the source; 132 cropped to 44 is rows [44, 88).
C14_CenterCrop ==
    (/\ res.called /\ arg.fn = "center_crop"
     /\ arg.out_size[1] <= shape(arg.img)[1]
     /\ arg.out_size[2] <= shape(arg.img)[2]) =>
        LET H == shape(arg.img)[1]
            W == shape(arg.img)[2]
            h == arg.out_size[1]
            w == arg.out_size[2]
            out == res.value
            above == out[1][1][1]
            below == H - 1 - out[h][1][1]
            lft == out[1][1][2]
            rgt == W - 1 - out[1][w][2]
        IN  /\ Len(out) = h
            /\ \A i \in 1..h :
                  /\ Len(out[i]) = w
                  /\ \A j \in 1..w :
                        /\ 2 * (out[i][j][1] - (i - 1)) \in {H - h, H - h + 1}
                        /\ 2 * (out[i][j][2] - (j - 1)) \in {W - w, W - w + 1}
            /\ above + below = H - h
            /\ above = IF (H - h) % 2 = 0 THEN below ELSE below + 1
            /\ lft + rgt = W - w
            /\ lft = IF (W - w) % 2 = 0 THEN rgt ELSE rgt + 1
            /\ (h = H /\ w = W) => out = arg.img
            /\ (H = 132 /\ h = 44) =>
                  /\ out[1][1][1] = 44
                  /\ out[44][1][1] = 87

\* a 4 x 3 source was cropped to 1 x 2: row 2 of rows 0..3 (two rows above,
\* one below), columns 1..2 of columns 0..2 (one column left, none right)
C14_Witness ==
    /\ res.called /\ arg.fn = "center_crop"
    /\ arg.img = Image(4, 3) /\ arg.out_size = <<1, 2>>
    /\ res.value = << << <<2, 1>>, <<2, 2>> >> >>

\* C15: when crop sizes are configured, the raster get_patch returns for a
\* band has the height and the width configured for that band, whatever the
\* size of the band's source array.
C15_CroppedSize ==
    (res.called /\ arg.fn = "get_patch" /\ arg.crop # NoCrop) =>
        \A band \in Range(arg.bands) :
            shape(res.value.raster[band]) = arg.crop[band]

\* C15 as amended: the raster of a band has the configured height when the
\* source has at least that many rows and the configured width when the
\* source has at least that many columns; in a dimension in which the source
\* is smaller than the target the raster is not empty, no larger than the
\* source and so smaller than the target.
C15_CroppedSizeAmended ==
    (res.called /\ arg.fn = "get_patch" /\ arg.crop # NoCrop) =>
        \A band \in Range(arg.bands) : \A k \in {1, 2} :
            LET src == shape(arg.features.properties[band])[k]
                tgt == arg.crop[band][k]
                out == shape(res.value.raster[band])[k]
            IN  IF src >= tgt THEN out = tgt
                ELSE 1 <= out /\ out <= src

\* get_patch returned two bands whose sources differ in size and are larger
\* than their targets, the targets differing too: each raster has the size
\* configured for its band
C15_Witness ==
    /\ res.called /\ arg.fn = "get_patch" /\ arg.crop # NoCrop
    /\ shape(arg.features.properties["B1"]) = <<4, 4>>
    /\ shape(arg.features.properties["B2"]) = <<3, 2>>
    /\ arg.crop["B1"] = <<3, 3>> /\ arg.crop["B2"] = <<1, 1>>
    /\ shape(res.value.raster["B1"]) = <<3, 3>>
    /\ shape(res.value.raster["B2"]) = <<1, 1>>

\* C16: for a new size no larger than the old one, the box adjust_coords
\* returns has, per pixel of the new size, the xres and yres the given box has
\* per pixel of the old size; its top-left corner is the given one moved
\* right by left * xres and down by top * yres, <<top, left>> being the source
\* position of the first pixel center_crop returns for these sizes.
C16_ResolutionPreserved ==
    (/\ res.called /\ arg.fn = "adjust_coords"
     /\ arg.new_size[1] <= arg.old_size[1]
     /\ arg.new_size[2] <= arg.old_size[2]) =>
        LET box == arg.coords
            out == res.value
            xres == fdiv(fsub(box[2][1], box[1][1]), float(arg.old_size[2]))
            yres == fdiv(fsub(box[1][2], box[2][2]), float(arg.old_size[1]))
            first == center_crop(Image(arg.old_size[1], arg.old_size[2]),
                                 arg.new_size)[1][1]
        IN  /\ fdiv(fsub(out[2][1], out[1][1]), float(arg.new_size[2])) = xres
            /\ fdiv(fsub(out[1][2], out[2][2]), float(arg.new_size[1])) = yres
            /\ out[1][1] = fadd(box[1][1], fmul(float(first[2]), xres))
            /\ out[1][2] = fsub(box[1][2], fmul(float(first[1]), yres))

\* the box (-3, 7)-(2, 2) of a 4 x 3 array was adjusted to a 1 x 2 crop:
\* xres = 5/3, yres = 5/4, offsets 1 column and 2 rows
C16_Witness ==
    /\ res.called /\ arg.fn = "adjust_coords"
    /\ arg.coords = << <<float(-3), float(7)>>, <<float(2), float(2)>> >>
    /\ arg.old_size = <<4, 3>> /\ arg.new_size = <<1, 2>>
    /\ res.value = << << <<-4, 3>>, <<9, 2>> >>, << <<2, 1>>, <<13, 4>> >> >>

\* C20: the R-tree check, which looks at the nearest entries only, raises
\* OverlapError for a candidate exactly when some entry of the index is at a
\* distance strictly below 1.5 * radius from it; an entry at the threshold
\* does not reject, and an empty index rejects nothing.
C20_NearestIsFullScan ==
    (res.called /\ arg.fn = "rtree_overlap") =>
        LET rt == arg.rtree_obj
            thr2x4 == 9 * arg.radius * arg.radius
        IN  /\ res.value <=>
                  \E i \in 1..Len(rt) : distance2x4(arg.coords, rt[i][2]) < thr2x4
            /\ (\A i \in 1..Len(rt) : distance2x4(arg.coords, rt[i][2]) >= thr2x4)
                  => ~res.value
            /\ rt = <<>> => ~res.value

\* the check accepted a candidate whose nearest entry is at the threshold
\* exactly (3336 m for a radius of 2224 m), the other entry being further away
C20_Witness ==
    /\ res.called /\ arg.fn = "rtree_overlap"
    /\ arg.radius = 2224 /\ arg.coords = <<0, 0>>
    /\ arg.rtree_obj = << <<-1, <<3, 1>>>>, <<0, <<3, 0>>>> >>
    /\ distance2x4(<<0, 0>>, <<3, 0>>) = 9 * 2224 * 2224
    /\ res.value = FALSE

\* the two-corner box of the ring of the sampled region
RingBox(ring) ==
    << <<float(MinOf({q[1] : q \in Range(ring)})),
         float(MaxOf({q[2] : q \in Range(ring)}))>>,
       <<float(MaxOf({q[1] : q \in Range(ring)})),
         float(MinOf({q[2] : q \in Range(ring)}))>> >>

\* every band's source array is at least as large as the band's crop size
SourcesLargeEnough ==
    \A band \in Range(arg.bands) : \A k \in {1, 2} :
        shape(arg.features.properties[band])[k] >= arg.crop[band][k]

\* C21: when crop sizes are configured, the box written with the raster of a
\* band is the box of the sampled region adjusted with that band's own source
\* size and crop size, for every band of the patch.
C21_BoxPerBand ==
    (/\ res.called /\ arg.fn = "get_patch" /\ "files" \in DOMAIN res
     /\ arg.crop # NoCrop /\ SourcesLargeEnough) =>
        \A band \in Range(arg.bands) :
            res.files[band].coords =
                adjust_coords(RingBox(arg.features.geometry),
                              shape(arg.features.properties[band]),
                              shape(res.value.raster[band]))

\* C22, in the form of finite runs: a match-mode index is resolved at most
\* once and without any draw; in a sample mode, once a candidate has resolved
\* for every date window (the function is returning its patches), the index
\* goes on to its terminal state with no retry pending: the frames below only
\* return, up to worker(), and no further candidate is drawn or resolved.
C22_TerminalAfterSuccess ==
    /\ [](mode = "match" =>
            /\ draws = 0
            /\ \A i \in Indices : attempts[i] <= 1
            /\ \A w \in Workers : stack[w] = <<>>)
    /\ [][\A w \in Workers :
             pc[w] = "return" =>
                 /\ pc'[w] \in {"return", "persist"}
                 /\ Len(stack'[w]) <= Len(stack[w])
         ]_vars

\* frame n of worker w holds a candidate that the overlap check accepted and
\* that was inserted into the index
Inserted(w, n) ==
    /\ n \in 1..Len(stack[w])
    /\ ~stack[w][n].overlap
    /\ n < Len(stack[w])
       \/ pc[w] \notin {"r_nearest", "r_insert", "g_check", "g_new", "g_add"}

\* C23: with several workers on one overlap index, no two workers hold
\* accepted and inserted candidates that are closer to each other than the
\* threshold (grid: and lie in the same cell).
C23_CheckInsertAtomic ==
    SampleMode =>
        \A w1, w2 \in Workers :
            w1 # w2 =>
                \A n1 \in 1..Len(stack[w1]), n2 \in 1..Len(stack[w2]) :
                    LET c1 == stack[w1][n1].coords
                        c2 == stack[w2][n2].coords
                    IN  (/\ Inserted(w1, n1) /\ Inserted(w2, n2)
                         /\ mode = "grid" => gridIndex(c1) = gridIndex(c2)) =>
                            ~Overlap(c1, c2)

\* the patches of every date window of index i, extracted for coordinate c, are
\* in the directory of i
OnDisk(i, c) == \A d \in Dates : [idx |-> i, date |-> d, coords |-> c] \in disk

\* the thread w is past the loop of save_patch calls and has not yet written
\* its row
BetweenPersistAndAppend(w) ==
    /\ pc[w] \in {"update", "load", "store", "count", "open", "write"}
    /\ cur[w] \in saved

\* C24: every row of status 1 or 2, in the ledger or in the buffer of a thread
\* that is about to append it, is for an index whose patches of every date
\* window are on disk; an interruption between persistence and append appends
\* no row for the index, and a resumed run of the same mode does not skip it.
C24_PersistBeforeCheckpoint ==
    /\ [](/\ \A k \in DOMAIN ledger :
               ledger[k][4] \in {1, 2} =>
                   OnDisk(int(ledger[k][1]), <<ledger[k][2], ledger[k][3]>>)
          /\ \A w \in Workers : \A k \in DOMAIN fbuf[w] :
               fbuf[w][k][4] \in {1, 2} =>
                   OnDisk(int(fbuf[w][k][1]), <<fbuf[w][k][2], fbuf[w][k][3]>>))
    /\ [][\A w \in Workers :
             (BetweenPersistAndAppend(w) /\ pc'[w] = "killed") =>
                 LET i == cur[w]
                     ec == load_coords(ledger')
                     ef == load_flags(ledger')
                 IN  /\ \A k \in (nloaded + 1)..Len(ledger') : ledger'[k][1] # str(i)
                     /\ ~(/\ str(i) \in DOMAIN ec
                          /\ (mode = "match" \/ ef[str(i)] # 0))
         ]_vars

\* a run was interrupted when one index had its row and another was persisted
\* and had none
C24_Witness ==
    /\ \A w \in Workers : pc[w] = "killed"
    /\ \E i, j \in Indices :
          /\ i \in saved /\ RowsOf(i) = {} /\ \E c \in Candidates \cup {match_coords[str(i)]} : OnDisk(i, c)
          /\ \E k \in RowsOf(j) : ledger[k][4] \in {1, 2}

\* C25: in a sample mode the patches a thread holds were all extracted for the
\* coordinate it holds as center_coord, at every point of the recursive
\* retries and after the return to worker(); the pair is not changed between
\* the return and the append; the patches written for the index are patches of
\* that coordinate, and it is the coordinate of the row.
C25_RecordedCoordOfPatches ==
    /\ [](SampleMode =>
            \A w \in Workers :
                ~patches[w].isNone =>
                    /\ center_coord[w] \in Candidates
                    /\ \A d \in DOMAIN patches[w].list :
                          patches[w].list[d].coords = center_coord[w])
    /\ [][SampleMode =>
            \A w \in Workers :
                /\ (AfterMatch(w) /\ pc'[w] # "idle") =>
                       /\ patches'[w] = patches[w]
                       /\ center_coord'[w] = center_coord[w]
                /\ (pc[w] = "persist" /\ pc'[w] # "persist") =>
                       \A r \in disk' \ disk :
                           r.idx = cur[w] => r.coords = center_coord[w]
                /\ (pc[w] = "close" /\ pc'[w] = "idle") =>
                       /\ ledger'[Len(ledger')][1] = str(cur[w])
                       /\ <<ledger'[Len(ledger')][2], ledger'[Len(ledger')][3]>>
                             = patches[w].list[1].coords
                       /\ OnDisk(cur[w], <<ledger'[Len(ledger')][2],
                                           ledger'[Len(ledger')][3]>>)
         ]_vars

\* a call that was made after a resolution raised, or a call below it, had its
\* candidate rejected, and the call made for the rejection is returning patches
C25_Witness ==
    /\ SampleMode
    /\ \E w \in Workers :
          /\ pc[w] = "return"
          /\ ~patches[w].isNone
          /\ \E n, m \in 1..Len(stack[w]) :
                /\ stack[w][n].overlap
                /\ stack[w][m].site = "call_fail"

====
